---- MODULE Spec2Model ----
(***************************************************************************)
(* A model of AutoClean (src/AutoClean/AutoClean.py): the constructor's     *)
(* parameter validation, the orchestrator _clean_data and the stages of     *)
(* class Modules, over small pandas-like tables.                            *)
(*                                                                          *)
(* Data representation                                                      *)
(*   number      <<n, d>> with d > 0, the rational n/d in lowest terms;     *)
(*               <<0, 0>> is NaN.                                           *)
(*   text cell   a tuple of naturals, the fields of the text: a category    *)
(*               word is <<w>>, an ISO datetime string "Y-M-DTh:m:s" is     *)
(*               <<Y, M, D, h, m, s>>, a missing cell is <<>>.              *)
(*   column name [base |-> string, cat |-> text cell]; cat is <<>> except   *)
(*               for the indicator columns get_dummies names "base_cat".    *)
(*   dataframe   [names, dtype, col, index]: the column names in order,     *)
(*               the dtype and the cells of each column, the row labels.    *)
(***************************************************************************)
EXTENDS Integers, Sequences, FiniteSets, TLC

VARIABLES self, df, pc, calls, raised, aux

vars == <<self, df, pc, calls, raised, aux>>

----------------------------------------------------------------------------
(* Bounds of the explored inputs *)

MaxRows == 2

MaxVal == 4

----------------------------------------------------------------------------
(* Exact arithmetic on the numbers of numeric columns *)

NaN == <<0, 0>>

IsNaN(x) == x[2] = 0

Abs(i) == IF i < 0 THEN -i ELSE i

RECURSIVE Gcd(_, _)
Gcd(a, b) == IF b = 0 THEN a ELSE Gcd(b, a % b)

Rat(n, d) ==
    LET g == Gcd(Abs(n), Abs(d))
        s == IF d < 0 THEN -1 ELSE 1
    IN  <<(s * n) \div g, (s * d) \div g>>

Num(i) == <<i, 1>>

RAdd(x, y) == Rat(x[1] * y[2] + y[1] * x[2], x[2] * y[2])

RSub(x, y) == Rat(x[1] * y[2] - y[1] * x[2], x[2] * y[2])

RMul(x, y) == Rat(x[1] * y[1], x[2] * y[2])

RDivInt(x, k) == Rat(x[1], x[2] * k)

\* Comparisons with NaN are False, as for floats.
RLt(x, y) == ~IsNaN(x) /\ ~IsNaN(y) /\ x[1] * y[2] < y[1] * x[2]

RGt(x, y) == RLt(y, x)

\* x % 1 == 0
IsIntegral(x) == ~IsNaN(x) /\ x[2] = 1

\* float -> int conversion truncates toward zero
Trunc(x) ==
    IF x[1] >= 0 THEN Num(x[1] \div x[2]) ELSE Num(-((-x[1]) \div x[2]))

----------------------------------------------------------------------------
(* Sequences *)

Range(s) == {s[i] : i \in 1..Len(s)}

RECURSIVE SelectIdx(_, _, _)
\* the subsequence of s at the positions i (ascending) with keep[i]
SelectIdx(s, keep, i) ==
    IF i > Len(s) THEN <<>>
    ELSE (IF keep[i] THEN <<s[i]>> ELSE <<>>) \o SelectIdx(s, keep, i + 1)

RECURSIVE Insert(_, _)
Insert(x, s) ==
    IF s = <<>> THEN <<x>>
    ELSE IF RLt(s[1], x) THEN <<s[1]>> \o Insert(x, Tail(s))
    ELSE <<x>> \o s

RECURSIVE Sorted(_)
Sorted(s) == IF s = <<>> THEN <<>> ELSE Insert(s[1], Sorted(Tail(s)))

RECURSIVE Sum(_)
Sum(s) == IF s = <<>> THEN Num(0) ELSE RAdd(s[1], Sum(Tail(s)))

----------------------------------------------------------------------------
(* Dataframes *)

Name(b) == [base |-> b, cat |-> <<>>]

NRows(d) == Len(d.index)

RowIdx(d) == 1..NRows(d)

NameSet(d) == Range(d.names)

\* df.select_dtypes(include=np.number).columns, in column order
IsNumber(t) == t \in {"int", "float"}

NumericCols(d) ==
    SelectIdx(d.names, [i \in 1..Len(d.names) |-> IsNumber(d.dtype[d.names[i]])], 1)

\* set(df.columns) ^ set(df.select_dtypes(include=np.number).columns)
NonNumericCols(d) == {c \in NameSet(d) : ~IsNumber(d.dtype[c])}

\* a cell is missing (pandas isna)
IsNA(d, c, i) ==
    IF IsNumber(d.dtype[c]) THEN IsNaN(d.col[c][i]) ELSE d.col[c][i] = <<>>

RowHasNA(d, i) == \E c \in NameSet(d) : IsNA(d, c, i)

\* df.isna().sum().sum()
CountMissings(d) == Cardinality({<<c, i>> \in NameSet(d) \X RowIdx(d) : IsNA(d, c, i)})

\* the rows i with keep[i], labels kept
KeepRows(d, keep) ==
    [d EXCEPT !.index = SelectIdx(d.index, keep, 1),
              !.col = [c \in NameSet(d) |-> SelectIdx(d.col[c], keep, 1)]]

\* a dropna that looks at the numeric columns only
DropNANumeric(d) ==
    KeepRows(d, [i \in RowIdx(d) |-> ~\E c \in NameSet(d) :
                                        IsNumber(d.dtype[c]) /\ IsNA(d, c, i)])

\* df.dropna()
DropNA(d) == KeepRows(d, [i \in RowIdx(d) |-> ~RowHasNA(d, i)])

\* df.reset_index(drop=True)
ResetIndex(d) == [d EXCEPT !.index = [i \in RowIdx(d) |-> i - 1]]

\* df[c] = cells, with the given dtype (a new column is appended)
SetCol(d, c, t, cells) ==
    [d EXCEPT !.names = IF c \in NameSet(d) THEN @ ELSE Append(@, c),
              !.dtype = [x \in NameSet(d) \cup {c} |-> IF x = c THEN t ELSE @[x]],
              !.col = [x \in NameSet(d) \cup {c} |-> IF x = c THEN cells ELSE @[x]]]

DropCol(d, c) ==
    [d EXCEPT !.names = SelectIdx(@, [i \in 1..Len(@) |-> @[i] # c], 1),
              !.dtype = [x \in NameSet(d) \ {c} |-> @[x]],
              !.col = [x \in NameSet(d) \ {c} |-> @[x]]]

\* (df[c].fillna(-9999) % 1 == 0).all()
AllIntegral(d, c) == \A i \in RowIdx(d) : IsNaN(d.col[c][i]) \/ IsIntegral(d.col[c][i])

HasNaN(d, c) == \E i \in RowIdx(d) : IsNaN(d.col[c][i])

----------------------------------------------------------------------------
(* sklearn imputers applied to one column, np.array(df[c]).reshape(-1, 1) *)

Present(cells) == SelectIdx(cells, [i \in 1..Len(cells) |-> ~IsNaN(cells[i])], 1)

Mean(xs) == RDivInt(Sum(xs), Len(xs))

\* np.nanmedian: the middle value, or the mean of the two middle values
Median(xs) ==
    LET s == Sorted(xs)
        n == Len(s)
    IN  IF n % 2 = 1 THEN s[(n + 1) \div 2]
        ELSE RDivInt(RAdd(s[n \div 2], s[n \div 2 + 1]), 2)

Count(xs, v) == Cardinality({i \in 1..Len(xs) : xs[i] = v})

\* strategy="most_frequent": the most frequent value, the smallest one on a tie
MostFrequent(xs) ==
    LET best == {v \in Range(xs) : \A w \in Range(xs) : Count(xs, w) <= Count(xs, v)}
    IN  CHOOSE v \in best : \A w \in best : ~RLt(w, v)

\* The value the imputer of self.missings_num fills in.  KNNImputer is given the
\* single column: a row whose only feature is missing has no defined distance to any
\* donor, and KNNImputer then falls back to the mean of the column.
Statistic(strategy, xs) ==
    CASE strategy = "knn" -> Mean(xs)
      [] strategy = "mean" -> Mean(xs)
      [] strategy = "median" -> Median(xs)
      [] strategy = "mode" -> MostFrequent(xs)

\* imputer.fit_transform raises (through pd.DataFrame(..., columns=[col_name])) when
\* the column has no observed value: the imputer drops such a column.
FitFails(cells) == Present(cells) = <<>>

Imputed(strategy, cells) ==
    LET st == Statistic(strategy, Present(cells))
    IN  [i \in 1..Len(cells) |-> IF IsNaN(cells[i]) THEN st ELSE cells[i]]

AsInt(cells) == [i \in 1..Len(cells) |-> Trunc(cells[i])]

\* an imputation that never casts the column to int
ImputeNumColFloat(strategy, d, c) ==
    IF FitFails(d.col[c]) THEN d
    ELSE SetCol(d, c, "float", Imputed(strategy, d.col[c]))

\* lines 153-164: one numeric column; a failure is caught and the column left alone
ImputeNumCol(strategy, d, c) ==
    IF FitFails(d.col[c]) THEN d
    ELSE IF AllIntegral(d, c)
         THEN SetCol(d, c, "int", AsInt(Imputed(strategy, d.col[c])))
         ELSE SetCol(d, c, "float", Imputed(strategy, d.col[c]))

RECURSIVE ImputeNumCols(_, _, _)
ImputeNumCols(strategy, d, cs) ==
    IF cs = <<>> THEN d
    ELSE ImputeNumCols(strategy, ImputeNumCol(strategy, d, cs[1]), Tail(cs))

Ok(d) == [ok |-> TRUE, df |-> d]

Fail(d) == [ok |-> FALSE, df |-> d]

DeleteMissings(d) == ResetIndex(DropNA(d))

\* Modules._check_missings_num
CheckMissingsNum(s, d) ==
    IF s.missings_num = "False" \/ CountMissings(d) = 0 THEN Ok(d)
    ELSE IF s.missings_num = "delete" THEN Ok(DeleteMissings(d))
    ELSE Ok(ImputeNumCols(s.missings_num, d, NumericCols(d)))

\* text cells in dictionary order
RECURSIVE CellLess(_, _)
CellLess(a, b) ==
    IF b = <<>> THEN FALSE
    ELSE IF a = <<>> THEN TRUE
    ELSE IF a[1] # b[1] THEN a[1] < b[1]
    ELSE CellLess(Tail(a), Tail(b))

PresentCells(cells) == {cells[i] : i \in 1..Len(cells)} \ {<<>>}

MostFrequentCell(cells) ==
    LET vs == PresentCells(cells)
        best == {v \in vs : \A w \in vs : Count(cells, w) <= Count(cells, v)}
    IN  CHOOSE v \in best : \A w \in best : ~CellLess(w, v)

ImputeCategCol(d, c) ==
    LET m == MostFrequentCell(d.col[c])
    IN  SetCol(d, c, "object",
               [i \in RowIdx(d) |-> IF d.col[c][i] = <<>> THEN m ELSE d.col[c][i]])

\* lines 213-218: no try around the imputer, so a column without any observed value
\* ends the whole run
CategFitFails(d) == \E c \in NonNumericCols(d) : PresentCells(d.col[c]) = {}

\* the columns are imputed independently of one another: any order gives this table
ImputeCategCols(d) ==
    [d EXCEPT !.dtype = [c \in NameSet(d) |->
                            IF c \in NonNumericCols(d) THEN "object" ELSE @[c]],
              !.col = [c \in NameSet(d) |->
                            IF c \in NonNumericCols(d) THEN ImputeCategCol(d, c).col[c]
                            ELSE @[c]]]

\* Modules._check_missings_categ
CheckMissingsCateg(s, d) ==
    IF s.missings_categ = "False" \/ CountMissings(d) = 0 THEN Ok(d)
    ELSE IF s.missings_categ = "mode"
         THEN (IF CategFitFails(d) THEN Fail(d) ELSE Ok(ImputeCategCols(d)))
    ELSE IF s.missings_categ = "delete" THEN Ok(DeleteMissings(d))
    ELSE Ok(d)

----------------------------------------------------------------------------
(* Outliers *)

NaNBounds == [lb |-> NaN, ub |-> NaN]

\* np.percentile(a, q), a sorted and free of NaN, q in percent: linear interpolation
\* between the two order statistics around the virtual index (n - 1) * q / 100
Percentile(a, q) ==
    LET n == Len(a)
        lo == ((n - 1) * q) \div 100
        fr == Rat(((n - 1) * q) % 100, 100)
        hi == IF lo + 2 > n THEN n ELSE lo + 2
    IN  RAdd(a[lo + 1], RMul(RSub(a[hi], a[lo + 1]), fr))

QuartileLow == 25

QuartileHigh == 75

\* Modules._compute_bounds.  np.percentile answers NaN as soon as the column holds a
\* NaN; the column is not empty here (see EmptyColumn).
ComputeBounds(s, d, c) ==
    IF HasNaN(d, c) THEN NaNBounds
    ELSE LET a == Sorted(d.col[c])
             q1 == Percentile(a, QuartileLow)
             q3 == Percentile(a, QuartileHigh)
             iqr == RSub(q3, q1)
         IN  [lb |-> RSub(q1, RMul(s.outlier_param.val, iqr)),
              ub |-> RAdd(q3, RMul(s.outlier_param.val, iqr))]

\* row_val < lower_bound or row_val > upper_bound
Outside(v, b) == RLt(v, b.lb) \/ RGt(v, b.ub)

SetCell(d, c, i, v) == [d EXCEPT !.col[c][i] = v]

\* a replacement that leaves the column float
WinzCellNoCast(d, c, i, b, v) ==
    LET w == IF RLt(v, b.lb) THEN b.lb ELSE b.ub
    IN  SetCol(d, c, "float", SetCell(d, c, i, w).col[c])

\* lines 249-262: one outlier of column c at row i, whose value was v when the loop
\* started.  Writing the bound makes the column float; the column is converted to
\* int when it was whole before the write.
WinzCell(d, c, i, b, v) ==
    LET w == IF RLt(v, b.lb) THEN b.lb ELSE b.ub
        d1 == SetCol(d, c, "float", SetCell(d, c, i, w).col[c])
    IN  IF AllIntegral(d, c) THEN SetCol(d1, c, "int", AsInt(d1.col[c])) ELSE d1

RECURSIVE WinzRows(_, _, _, _, _)
\* lines 247-262: the rows are visited in order, each judged by the value it had
\* when the loop started (orig)
WinzRows(d, c, b, orig, i) ==
    IF i > Len(orig) THEN d
    ELSE WinzRows(IF Outside(orig[i], b) THEN WinzCell(d, c, i, b, orig[i]) ELSE d,
                  c, b, orig, i + 1)

\* df.drop(label)
DropLabel(d, l) == KeepRows(d, [i \in RowIdx(d) |-> d.index[i] # l])

RECURSIVE DropRows(_, _, _, _)
\* lines 268-271: enumerate() counts positions of the column as it was when the loop
\* started, and each outlier's position is dropped as a row label
DropRows(d, b, orig, i) ==
    IF i > Len(orig) THEN d
    ELSE DropRows(IF Outside(orig[i], b) THEN DropLabel(d, i - 1) ELSE d,
                  b, orig, i + 1)

\* a deletion that keeps the row labels of the survivors
OutlierColumnKeepLabels(s, d, c) ==
    LET b == ComputeBounds(s, d, c)
    IN  IF s.outliers = "winz" THEN WinzRows(d, c, b, d.col[c], 1)
        ELSE IF s.outliers = "delete" THEN DropRows(d, b, d.col[c], 1)
        ELSE d

\* lines 240-278: one numeric column
OutlierColumn(s, d, c) ==
    LET b == ComputeBounds(s, d, c)
    IN  IF s.outliers = "winz" THEN WinzRows(d, c, b, d.col[c], 1)
        ELSE IF s.outliers = "delete" THEN ResetIndex(DropRows(d, b, d.col[c], 1))
        ELSE d

\* np.percentile of an empty column: NaN in older numpy (nothing happens, there is no
\* row), IndexError in newer numpy
EmptyColumn(d) == NRows(d) = 0

RECURSIVE OutlierColumns(_, _, _, _)
\* emptyRaises: the numpy in use raises on an empty column
OutlierColumns(s, d, cs, emptyRaises) ==
    IF cs = <<>> THEN Ok(d)
    ELSE IF EmptyColumn(d) THEN (IF emptyRaises THEN Fail(d) ELSE Ok(d))
    ELSE OutlierColumns(s, OutlierColumn(s, d, cs[1]), Tail(cs), emptyRaises)

\* Modules._check_outliers
CheckOutliers(s, d, emptyRaises) ==
    IF s.outliers = "False" THEN Ok(d)
    ELSE OutlierColumns(s, d, NumericCols(d), emptyRaises)

----------------------------------------------------------------------------
(* Datetime features *)

\* the calendar of the model: every month has 31 days
Cal == [months |-> 12, days |-> 31, day |-> 86400, hour |-> 3600, minute |-> 60]

IsoText(t) ==
    /\ Len(t) = 6
    /\ t[2] \in 1..Cal.months /\ t[3] \in 1..Cal.days
    /\ t[4] \in 0..23 /\ t[5] \in 0..59 /\ t[6] \in 0..59

\* A parsed timestamp is <<day number, second of the day>>, NaT is <<>>.
ParseDatetime(t) ==
    IF t = <<>> THEN <<>>
    ELSE <<(t[1] * Cal.months + (t[2] - 1)) * Cal.days + (t[3] - 1),
           t[4] * Cal.hour + t[5] * Cal.minute + t[6]>>

DtDay(ts) == (ts[1] % Cal.days) + 1

DtMonth(ts) == ((ts[1] \div Cal.days) % Cal.months) + 1

DtYear(ts) == ts[1] \div (Cal.days * Cal.months)

DtHour(ts) == ts[2] \div Cal.hour

DtMinute(ts) == (ts[2] % Cal.hour) \div Cal.minute

DtSecond(ts) == ts[2] % Cal.minute

\* pd.to_datetime(df[c]) does not raise: the column is datetime already, or every
\* cell is missing or a datetime text
Parseable(d, c) ==
    \/ d.dtype[c] = "datetime"
    \/ d.dtype[c] = "object" /\ \A i \in RowIdx(d) : d.col[c][i] = <<>> \/ IsoText(d.col[c][i])

ToDatetime(d, c) ==
    IF d.dtype[c] = "datetime" THEN d.col[c]
    ELSE [i \in RowIdx(d) |-> ParseDatetime(d.col[c][i])]

ComponentNames == <<"Day", "Month", "Year", "Hour", "Minute", "Sec">>

\* .dt.day, .dt.month, .dt.year, .dt.hour, .dt.minute, .dt.second
Part(k, ts) ==
    CASE k = 1 -> DtDay(ts)
      [] k = 2 -> DtMonth(ts)
      [] k = 3 -> DtYear(ts)
      [] k = 4 -> DtHour(ts)
      [] k = 5 -> DtMinute(ts)
      [] OTHER -> DtSecond(ts)

\* df[name] = pd.to_datetime(df[c]).dt.<part>: NaN for NaT, which makes the column float
Component(d, c, k) ==
    LET cells == [i \in RowIdx(d) |->
                    IF d.col[c][i] = <<>> THEN NaN ELSE Num(Part(k, d.col[c][i]))]
    IN  SetCol(d, Name(ComponentNames[k]),
               IF \E i \in RowIdx(d) : IsNaN(cells[i]) THEN "float" ELSE "int", cells)

Granularity == <<"D", "M", "Y", "h", "m", "s">>

Rank(g) == CHOOSE k \in 1..6 : Granularity[k] = g

\* lines 293-308
Extract(s, d, c) ==
    LET r == Rank(s.extract_datetime)
        d1 == Component(d, c, 1)
        d2 == IF r >= 2 THEN Component(d1, c, 2) ELSE d1
        d3 == IF r >= 3 THEN Component(d2, c, 3) ELSE d2
        d4 == IF r >= 4 THEN Component(d3, c, 4) ELSE d3
        d5 == IF r >= 5 THEN Component(d4, c, 5) ELSE d4
    IN  IF r >= 6 THEN Component(d5, c, 6) ELSE d5

AllZero(d, n) == \A i \in RowIdx(d) : d.col[Name(n)][i] = Num(0)

\* (df[a] == 0).all() and (df[b] == 0).all() and (df[c] == 0).all(), evaluated left
\* to right: "raise" is the KeyError of a column that is not there
ZeroTest(d, ns) ==
    IF Name(ns[1]) \notin NameSet(d) THEN "raise"
    ELSE IF ~AllZero(d, ns[1]) THEN "false"
    ELSE IF Name(ns[2]) \notin NameSet(d) THEN "raise"
    ELSE IF ~AllZero(d, ns[2]) THEN "false"
    ELSE IF Name(ns[3]) \notin NameSet(d) THEN "raise"
    ELSE IF ~AllZero(d, ns[3]) THEN "false"
    ELSE "true"

Drop3(d, ns) == DropCol(DropCol(DropCol(d, Name(ns[1])), Name(ns[2])), Name(ns[3]))

TimeCols == <<"Hour", "Minute", "Sec">>

DateCols == <<"Day", "Month", "Year">>

\* an extraction that keeps every component column
CleanupNothing(d) == d

\* lines 312-323
Cleanup(d) ==
    LET t == ZeroTest(d, TimeCols)
    IN  IF t = "true" THEN Drop3(d, TimeCols)
        ELSE IF t = "false" /\ ZeroTest(d, DateCols) = "true" THEN Drop3(d, DateCols)
        ELSE d

\* lines 289-326: one non-numeric column
ConvertColumn(s, d, c) ==
    IF ~Parseable(d, c) THEN d
    ELSE Cleanup(Extract(s, SetCol(d, c, "datetime", ToDatetime(d, c)), c))

RECURSIVE ConvertColumns(_, _, _)
ConvertColumns(s, d, cs) ==
    IF cs = <<>> THEN d ELSE ConvertColumns(s, ConvertColumn(s, d, cs[1]), Tail(cs))

\* The orders in which a for loop may visit the Python set cols
Orders(S) == {o \in [1..Cardinality(S) -> S] : \A i, j \in DOMAIN o : i # j => o[i] # o[j]}

\* Modules._convert_datetime, visiting the non-numeric columns in the order given
ConvertDatetime(s, d, order) ==
    IF s.extract_datetime = "False" THEN d ELSE ConvertColumns(s, d, order)

----------------------------------------------------------------------------
(* Encoding of categorical features *)

RECURSIVE SortCells(_)
\* the cells of a set in ascending order
SortCells(S) ==
    IF S = {} THEN <<>>
    ELSE LET m == CHOOSE v \in S : \A w \in S : ~CellLess(w, v)
         IN  <<m>> \o SortCells(S \ {m})

\* the distinct categories of a column, missing cells left out, sorted
Categories(d, c) == SortCells(PresentCells(d.col[c]))

\* df[c].nunique()
NUnique(d, c) == Len(Categories(d, c))

Dummy(c, v) == [base |-> c.base, cat |-> v]

RECURSIVE JoinDummies(_, _, _)
JoinDummies(d, c, cats) ==
    IF cats = <<>> THEN d
    ELSE JoinDummies(SetCol(d, Dummy(c, cats[1]), "int",
                            [i \in RowIdx(d) |->
                                IF d.col[c][i] = cats[1] THEN Num(1) ELSE Num(0)]),
                     c, Tail(cats))

\* Modules._onehot_encode: pd.get_dummies makes one 0/1 column per category, named
\* after the column and the category; df.join raises when such a column is there
\* already.  (The indicators are uint8 in pandas 1.x and bool in pandas 2.)
OnehotEncode(d, c) ==
    IF \E v \in PresentCells(d.col[c]) : Dummy(c, v) \in NameSet(d) THEN Fail(d)
    ELSE Ok(JoinDummies(d, c, Categories(d, c)))

\* a numbering of the classes from 1
CodeFromOne(cats, v) == CHOOSE k \in 1..Len(cats) : cats[k] = v

CodeOf(cats, v) == (CHOOSE k \in 1..Len(cats) : cats[k] = v) - 1

\* Modules._label_encode: LabelEncoder numbers the sorted classes from 0.  In an
\* object column the missing value is the last class, and lines 432-438 put NaN
\* back in its place; the NaT of a datetime column is the last class too, but
\* isnan() raises on it and its code stays.
LabelEncode(d, c) ==
    LET cats == Categories(d, c)
        miss == \E i \in RowIdx(d) : d.col[c][i] = <<>>
        cells == [i \in RowIdx(d) |->
                    IF d.col[c][i] # <<>> THEN Num(CodeOf(cats, d.col[c][i]))
                    ELSE IF d.dtype[c] = "datetime" THEN Num(Len(cats))
                    ELSE NaN]
    IN  Ok(SetCol(d, c, IF miss /\ d.dtype[c] # "datetime" THEN "float" ELSE "int", cells))

OnehotMax == 10

LabelMax == 20

\* lines 339-360: one column in "auto" mode; nothing catches a failing encoder
AutoColumn(d, c) ==
    IF Parseable(d, c) THEN Ok(d)
    ELSE IF NUnique(d, c) <= OnehotMax THEN OnehotEncode(d, c)
    ELSE IF NUnique(d, c) <= LabelMax THEN LabelEncode(d, c)
    ELSE Ok(d)

RECURSIVE AutoColumns(_, _)
AutoColumns(d, cs) ==
    IF cs = <<>> THEN Ok(d)
    ELSE LET r == AutoColumn(d, cs[1])
         IN  IF r.ok THEN AutoColumns(r.df, Tail(cs)) ELSE r

\* the encoder of the method, called as Modules._onehot_encode(self, df, col)
Encode(method, d, c) ==
    IF method = "onehot" THEN OnehotEncode(d, c)
    ELSE IF method = "label" THEN LabelEncode(d, c)
    ELSE Ok(d)

\* the encoder of the method, called as self._onehot_encode(df, col): self is an
\* AutoClean, which has no such attribute, so the call raises AttributeError
EncodeViaSelf(method, d, c) ==
    IF method \in {"onehot", "label"} THEN Fail(d) ELSE Ok(d)

\* lines 365-392: one target.  A target that is a name of cols is encoded; any other
\* target goes to cols[i] on a set and self._..._encode, which raise.  Either try
\* catches its failure and leaves the table as it was.
TargetColumn(method, d, cols, t) ==
    IF t.idx < 0 /\ t.name \in cols
    THEN (LET r == Encode(method, d, t.name) IN IF r.ok THEN r.df ELSE d)
    ELSE (LET r == EncodeViaSelf(method, d, t) IN IF r.ok THEN r.df ELSE d)

RECURSIVE TargetColumns(_, _, _, _)
TargetColumns(method, d, cols, ts) ==
    IF ts = <<>> THEN d
    ELSE TargetColumns(method, TargetColumn(method, d, cols, ts[1]), cols, Tail(ts))

\* lines 397-413: one column in the encode-all branch
AllColumn(method, d, c) ==
    IF Parseable(d, c) THEN d
    ELSE (LET r == EncodeViaSelf(method, d, c) IN IF r.ok THEN r.df ELSE d)

RECURSIVE AllColumns(_, _, _)
AllColumns(method, d, cs) ==
    IF cs = <<>> THEN d ELSE AllColumns(method, AllColumn(method, d, cs[1]), Tail(cs))

\* Modules._encode_categ, visiting the non-numeric columns in the order given.
\* self.encode_categ is [len, method, is_list, target_is_list, targets]: method is
\* element 0 and targets element 1.  Element 0 of an empty list, and element 1 of a
\* one-element list in the logger call of line 396, raise IndexError.
EncodeCateg(s, d, order) ==
    LET e == s.encode_categ
    IN  IF e.len = 0 THEN Fail(d)
        ELSE IF e.method = "False" THEN Ok(d)
        ELSE IF e.method = "auto" THEN AutoColumns(d, order)
        ELSE IF e.len = 2 THEN Ok(TargetColumns(e.method, d, Range(order), e.targets))
        ELSE IF e.len = 1 THEN Fail(d)
        ELSE Ok(AllColumns(e.method, d, order))

----------------------------------------------------------------------------
(* Type normalisation *)

Decimals == 2

RECURSIVE Pow10(_)
Pow10(k) == IF k = 0 THEN 1 ELSE 10 * Pow10(k - 1)

Floor(x) == IF x[1] >= 0 THEN x[1] \div x[2] ELSE -((-x[1] + x[2] - 1) \div x[2])

\* round(x, k): to the nearest multiple of 10^-k, a tie to the even one
RoundTo(x, k) ==
    IF IsNaN(x) THEN x
    ELSE LET y == RMul(x, Num(Pow10(k)))
             f == Floor(y)
             r == RSub(y, Num(f))
             up == RGt(r, <<1, 2>>) \/ (r = <<1, 2>> /\ f % 2 = 1)
         IN  Rat(IF up THEN f + 1 ELSE f, Pow10(k))

\* lines 177-195: one numeric column.  astype(int) raises on NaN, which is caught.
RoundColumn(d, c) ==
    IF AllIntegral(d, c)
    THEN (IF HasNaN(d, c) THEN d ELSE SetCol(d, c, "int", AsInt(d.col[c])))
    ELSE SetCol(d, c, "float", [i \in RowIdx(d) |-> RoundTo(d.col[c][i], Decimals)])

RECURSIVE RoundColumns(_, _)
RoundColumns(d, cs) ==
    IF cs = <<>> THEN d ELSE RoundColumns(RoundColumn(d, cs[1]), Tail(cs))

\* Modules._round_values
RoundValues(d) == RoundColumns(d, NumericCols(d))

----------------------------------------------------------------------------
(* AutoClean.__init__, _validate_params and _clean_data *)

\* Python's False is written "False"; "bogus" is a value that is no option.
MissingsNumValues == {"False", "knn", "mean", "median", "mode", "delete", "bogus"}

MissingsCategValues == {"False", "mode", "delete", "bogus"}

OutliersValues == {"False", "winz", "delete", "bogus"}

ExtractValues == {"False", "D", "M", "Y", "h", "m", "s", "bogus"}

OutlierParamValues ==
    {[type |-> "float", val |-> <<3, 2>>], [type |-> "float", val |-> <<1, 2>>],
     [type |-> "int", val |-> Num(-1)], [type |-> "str", val |-> NaN]}

ByName(b) == [name |-> Name(b), idx |-> -1]

ByIndex(i) == [name |-> Name(""), idx |-> i]

EncodeList(n, m, ts) ==
    [len |-> n, method |-> m, is_list |-> TRUE, target_is_list |-> TRUE, targets |-> ts]

\* [], [False], ['auto'], ['onehot'], ['label'], ['bogus'], ['onehot', ['c']],
\* ['label', ['c']], ['onehot', [0]], ['label', [0]], ['bogus', ['c']],
\* ['onehot', 'c'], ['onehot', 'x', 'y'], ('bogus', 'x', 'y')
EncodeValues ==
    {EncodeList(0, "False", <<>>)}
    \cup {EncodeList(1, m, <<>>) : m \in {"False", "auto", "onehot", "label", "bogus"}}
    \cup {EncodeList(2, m, <<ByName("c")>>) : m \in {"onehot", "label", "bogus"}}
    \cup {EncodeList(2, m, <<ByIndex(0)>>) : m \in {"onehot", "label"}}
    \cup {[EncodeList(2, "onehot", <<>>) EXCEPT !.target_is_list = FALSE]}
    \cup {EncodeList(3, "onehot", <<>>)}
    \cup {[EncodeList(3, "bogus", <<>>) EXCEPT !.is_list = FALSE]}

\* the defaults of __init__ (line 12)
Defaults ==
    [input_type |-> "DataFrame", missings_num |-> "knn", missings_categ |-> "mode",
     encode_categ |-> EncodeList(1, "auto", <<>>), extract_datetime |-> "s",
     outliers |-> "winz", outlier_param |-> [type |-> "float", val |-> <<3, 2>>]]

Configs ==
    [input_type : {"DataFrame", "Series"}, missings_num : MissingsNumValues,
     missings_categ : MissingsCategValues, encode_categ : EncodeValues,
     extract_datetime : ExtractValues, outliers : OutliersValues,
     outlier_param : OutlierParamValues]

\* AutoClean._validate_params: TRUE when no ValueError is raised
ValidateParams(s) ==
    /\ s.input_type = "DataFrame"
    /\ s.missings_num = "False" \/ s.missings_num \in {"knn", "mean", "median", "mode", "delete"}
    /\ s.missings_categ = "False" \/ s.missings_categ \in {"mode", "delete"}
    /\ s.outliers = "False" \/ s.outliers \in {"winz", "delete"}
    /\ ~(/\ s.encode_categ.len > 2
         /\ ~s.encode_categ.is_list
         /\ s.encode_categ.method # "False"
         /\ s.encode_categ.method \notin {"auto", "onehot", "label"})
    /\ s.encode_categ.len = 2 => s.encode_categ.target_is_list
    /\ s.outlier_param.type \in {"int", "float"}
    /\ s.extract_datetime = "False" \/ s.extract_datetime \in {"D", "M", "Y", "h", "m", "s"}

\* a test that asks for categorical handling to be enabled
CategFirstWhenEnabled(s) ==
    s.missings_categ \notin {"False", "delete"} /\ s.missings_num = "delete"

\* line 97: the test that puts the categorical handler first
CategFirst(s) == s.missings_categ # "delete" /\ s.missings_num = "delete"

----------------------------------------------------------------------------
(* The run of one AutoClean(input_data, ...) *)

\* The options are explored one group at a time, the others at their defaults.
OptionGroups ==
    {{"missings_num", "missings_categ"}, {"outliers", "outlier_param"},
     {"encode_categ"}, {"extract_datetime"}, {"input_type"}}

Explored(s) == \E g \in OptionGroups : \A f \in DOMAIN Defaults \ g : s[f] = Defaults[f]

\* a numeric column is int when pandas can hold it so: whole values and no NaN
DtypeOf(cells) ==
    IF \A i \in 1..Len(cells) : IsIntegral(cells[i]) THEN "int" ELSE "float"

Table(names, cols) ==
    [names |-> [i \in 1..Len(names) |-> Name(names[i])],
     dtype |-> [c \in {Name(names[i]) : i \in 1..Len(names)} |->
                  LET k == CHOOSE i \in 1..Len(names) : Name(names[i]) = c
                  IN  IF cols[k].num THEN DtypeOf(cols[k].cells) ELSE "object"],
     col |-> [c \in {Name(names[i]) : i \in 1..Len(names)} |->
                  LET k == CHOOSE i \in 1..Len(names) : Name(names[i]) = c
                  IN  cols[k].cells],
     index |-> [i \in 1..Len(cols[1].cells) |-> i - 1]]

NumCol(cells) == [num |-> TRUE, cells |-> cells]

TextCol(cells) == [num |-> FALSE, cells |-> cells]

\* rows <<n, c, t>> of the input: a number, a category word, a datetime text
InputRows ==
    {<<Num(1), <<1>>, <<2020, 1, 2, 3, 4, 5>> >>,
     <<NaN, <<2>>, <<2021, 12, 31, 0, 0, 0>> >>,
     <<<<5, 2>>, <<>>, <<2020, 1, 2, 3, 4, 5>> >>,
     <<Num(MaxVal), <<1>>, <<>> >>}

Column(rows, k) == [i \in 1..Len(rows) |-> rows[i][k]]

InputTables ==
    {Table(<<"n", "c", "t">>,
           <<NumCol(Column(rows, 1)), TextCol(Column(rows, 2)), TextCol(Column(rows, 3))>>) :
        rows \in UNION {[1..k -> InputRows] : k \in 1..MaxRows}}

\* bookkeeping for the properties: the input table, the table the stage or step in
\* hand started from, and the columns a stepwise stage has still to visit or has visited
Idle(d) == [input |-> d, before |-> d, todo |-> <<>>, done |-> <<>>]

Init ==
    /\ self \in {s \in Configs : Explored(s)}
    /\ df \in InputTables
    /\ pc = "validate"
    /\ calls = <<>>
    /\ raised = "none"
    /\ aux = Idle(df)

\* lines 53-54
Validate ==
    /\ pc = "validate"
    /\ IF ValidateParams(self)
       THEN pc' = "missings_a" /\ raised' = raised
       ELSE pc' = "rejected" /\ raised' = "ValueError"
    /\ UNCHANGED <<self, df, calls, aux>>

\* a stage of _clean_data returned r: go on to pc "to", or the exception escapes
Stage(name, r, to) ==
    /\ calls' = Append(calls, name)
    /\ aux' = [aux EXCEPT !.before = df]
    /\ df' = r.df
    /\ IF r.ok THEN pc' = to /\ raised' = raised
       ELSE pc' = "failed" /\ raised' = "Exception"
    /\ UNCHANGED self

AfterMissings(p) == IF p = "missings_a" THEN "missings_b" ELSE "outliers"

\* lines 98 and 102
RunMissingsCateg ==
    /\ \/ pc = "missings_a" /\ CategFirst(self)
       \/ pc = "missings_b" /\ ~CategFirst(self)
    /\ Stage("_check_missings_categ", CheckMissingsCateg(self, df), AfterMissings(pc))

\* lines 99 and 101
RunMissingsNum ==
    /\ \/ pc = "missings_a" /\ ~CategFirst(self)
       \/ pc = "missings_b" /\ CategFirst(self)
    /\ Stage("_check_missings_num", CheckMissingsNum(self, df), AfterMissings(pc))

\* line 104
RunOutliers ==
    /\ pc = "outliers"
    /\ \E emptyRaises \in BOOLEAN :
          Stage("_check_outliers", CheckOutliers(self, df, emptyRaises), "datetime")

\* line 106
RunDatetime ==
    /\ pc = "datetime"
    /\ \E order \in Orders(NonNumericCols(df)) :
          Stage("_convert_datetime", Ok(ConvertDatetime(self, df, order)), "encode")

\* line 107
RunEncode ==
    /\ pc = "encode"
    /\ \E order \in Orders(NonNumericCols(df)) :
          Stage("_encode_categ", EncodeCateg(self, df, order), "round")

\* lines 109-112
RunRound ==
    /\ pc = "round"
    /\ Stage("_round_values", Ok(RoundValues(df)), "done")

Next ==
    \/ Validate
    \/ RunMissingsCateg
    \/ RunMissingsNum
    \/ RunOutliers
    \/ RunDatetime
    \/ RunEncode
    \/ RunRound

Spec == Init /\ [][Next]_vars
----------------------------------------------------------------------------
(* The outlier stage alone, one numeric column at a time *)

OutRows == 4

\* the multipliers explored: the default, a narrow band and a negative number
\* (which _validate_params lets through)
OutlierSelves ==
    {[Defaults EXCEPT !.outliers = o, !.outlier_param = p] :
        o \in {"winz", "delete"},
        p \in {q \in OutlierParamValues : q.type # "str" /\ q.val # <<1, 2>>}
              \cup {[type |-> "float", val |-> <<1, 4>>]}}

\* column a holds whole and half values, or whole values and NaN; column b holds
\* whole values
OutlierCells == {{Num(0), <<1, 2>>, Num(MaxVal)}, {Num(0), NaN, Num(MaxVal)}}

OutlierTables ==
    {Table(<<"a", "b">>, <<NumCol(a), NumCol(b)>>) :
        <<a, b>> \in UNION {[1..k -> A] \X [1..k -> {Num(-MaxVal), Num(0)}] :
                              <<k, A>> \in (1..OutRows) \X OutlierCells}}

InitOutliers ==
    /\ self \in OutlierSelves
    /\ df \in OutlierTables
    /\ pc = "outliers"
    /\ calls = <<>>
    /\ raised = "none"
    /\ aux = [Idle(df) EXCEPT !.todo = NumericCols(df)]

\* lines 240-278: the loop body for the next column
OutlierStep ==
    /\ pc = "outliers"
    /\ aux.todo # <<>>
    /\ ~EmptyColumn(df)
    /\ df' = OutlierColumn(self, df, Head(aux.todo))
    /\ aux' = [aux EXCEPT !.before = df, !.todo = Tail(@), !.done = Append(@, Head(aux.todo))]
    /\ UNCHANGED <<self, pc, calls, raised>>

\* line 243 on a table without rows
OutlierEmpty ==
    /\ pc = "outliers"
    /\ aux.todo # <<>>
    /\ EmptyColumn(df)
    /\ \E emptyRaises \in BOOLEAN :
          IF emptyRaises
          THEN pc' = "failed" /\ raised' = "Exception" /\ aux' = aux
          ELSE pc' = pc /\ raised' = raised /\ aux' = [aux EXCEPT !.todo = <<>>]
    /\ UNCHANGED <<self, df, calls>>

\* lines 280-281
OutlierReturn ==
    /\ pc = "outliers"
    /\ aux.todo = <<>>
    /\ pc' = "datetime"
    /\ calls' = Append(calls, "_check_outliers")
    /\ UNCHANGED <<self, df, raised, aux>>

NextOutliers == OutlierStep \/ OutlierEmpty \/ OutlierReturn

SpecOutliers == InitOutliers /\ [][NextOutliers]_vars

----------------------------------------------------------------------------
(* The datetime stage alone, one non-numeric column at a time *)

DtRows == 2

DtTexts == {<<2020, 1, 2, 3, 4, 5>>, <<2021, 12, 31, 0, 0, 0>>, <<7>>, <<>>}

DatetimeTables ==
    {Table(<<"t", "u">>, <<TextCol(t), TextCol(u)>>) :
        <<t, u>> \in UNION {[1..k -> DtTexts] \X [1..k -> DtTexts] : k \in 1..DtRows}}

InitDatetime ==
    /\ self \in {[Defaults EXCEPT !.extract_datetime = g] : g \in ExtractValues \ {"bogus"}}
    /\ df \in DatetimeTables
    /\ pc = "datetime"
    /\ calls = <<>>
    /\ raised = "none"
    /\ \E order \in Orders(NonNumericCols(df)) :
          aux = [Idle(df) EXCEPT !.todo = IF self.extract_datetime = "False" THEN <<>>
                                         ELSE order]

\* lines 288-326: the loop body for the next column
ConvertStep ==
    /\ pc = "datetime"
    /\ aux.todo # <<>>
    /\ df' = ConvertColumn(self, df, Head(aux.todo))
    /\ aux' = [aux EXCEPT !.before = df, !.todo = Tail(@), !.done = Append(@, Head(aux.todo))]
    /\ UNCHANGED <<self, pc, calls, raised>>

\* lines 328-329
ConvertReturn ==
    /\ pc = "datetime"
    /\ aux.todo = <<>>
    /\ pc' = "encode"
    /\ calls' = Append(calls, "_convert_datetime")
    /\ UNCHANGED <<self, df, raised, aux>>

NextDatetime == ConvertStep \/ ConvertReturn

SpecDatetime == InitDatetime /\ [][NextDatetime]_vars

----------------------------------------------------------------------------
(* The type normaliser alone, run twice *)

RoundRows == 2

\* 1, 2, 1.004, 2.5, 0.005, -1.75 and NaN
RoundCells == {Num(1), Num(2), Rat(1004, 1000), Rat(5, 2), Rat(5, 1000), Rat(-7, 4), NaN}

RoundTables ==
    {Table(<<"a", "b">>, <<NumCol(a), NumCol(b)>>) :
        <<a, b>> \in UNION {[1..k -> RoundCells] \X [1..k -> {Num(1), Rat(1004, 1000)}] :
                              k \in 1..RoundRows}}

InitRound ==
    /\ self = Defaults
    /\ df \in RoundTables
    /\ pc = "round"
    /\ calls = <<>>
    /\ raised = "none"
    /\ aux = Idle(df)

\* _round_values on the table that _round_values returned
RunRoundAgain ==
    /\ pc = "done"
    /\ Len(calls) = 1
    /\ Stage("_round_values", Ok(RoundValues(df)), "done")

NextRound == RunRound \/ RunRoundAgain

SpecRound == InitRound /\ [][NextRound]_vars

----------------------------------------------------------------------------
(* The missing-value and outlier stages on one numeric column *)

ExampleRows == 4

ExampleCells == {Num(1), NaN, Num(3), Num(100)}

ExampleTables ==
    {Table(<<"x">>, <<NumCol(x)>>) : x \in UNION {[1..k -> ExampleCells] : k \in 1..ExampleRows}}

InitExample ==
    /\ self \in {[Defaults EXCEPT !.missings_num = m] : m \in {"mean", "median", "mode", "False"}}
    /\ df \in ExampleTables
    /\ pc = "missings_a"
    /\ calls = <<>>
    /\ raised = "none"
    /\ aux = Idle(df)

\* lines 101-104
NextExample == RunMissingsNum \/ RunMissingsCateg \/ RunOutliers

SpecExample == InitExample /\ [][NextExample]_vars

----------------------------------------------------------------------------
(* Modules._label_encode on one text column *)

LabelRows == 3

\* three category words and the missing value
LabelWords == {<<1>>, <<2>>, <<3>>, <<>>}

LabelTables ==
    {Table(<<"c">>, <<TextCol(c)>>) : c \in UNION {[1..k -> LabelWords] : k \in 1..LabelRows}}

InitLabel ==
    /\ self = Defaults
    /\ df \in LabelTables
    /\ pc = "encode"
    /\ calls = <<>>
    /\ raised = "none"
    /\ aux = Idle(df)

\* lines 426-439
LabelStep ==
    /\ pc = "encode"
    /\ Stage("_label_encode", LabelEncode(df, Name("c")), "done")

NextLabel == LabelStep

SpecLabel == InitLabel /\ [][NextLabel]_vars

----------------------------------------------------------------------------
(* Properties of the run *)

LastCall == IF calls = <<>> THEN "none" ELSE calls[Len(calls)]

\* C1 as stated: the categorical handler is the first of the two exactly when
\* categorical handling is enabled and not 'delete' while numeric handling is 'delete'.
C1_AsStated ==
    calls # <<>> =>
        (calls[1] = "_check_missings_categ"
            <=> (/\ self.missings_categ \notin {"False", "delete"}
                 /\ self.missings_num = "delete"))

\* C1, amended: the categorical handler is called first, and the numeric handler
\* second, exactly when missings_categ is not 'delete' (disabled included) and
\* missings_num is 'delete'; otherwise the numeric handler is first and the
\* categorical handler second.
C1_Order ==
    LET categFirst == self.missings_categ # "delete" /\ self.missings_num = "delete"
        first == IF categFirst THEN "_check_missings_categ" ELSE "_check_missings_num"
        second == IF categFirst THEN "_check_missings_num" ELSE "_check_missings_categ"
    IN  /\ Len(calls) >= 1 => calls[1] = first
        /\ Len(calls) >= 2 => calls[2] = second

\* the categorical imputation ran first and saved rows the deletion would have lost
C1_Witness ==
    /\ Len(calls) = 2
    /\ calls[1] = "_check_missings_categ"
    /\ self.missings_categ = "mode"
    /\ NRows(df) > NRows(DeleteMissings(aux.input))

\* C2: once _validate_params has passed, no exception escapes _clean_data.
C2_NoEscape == ValidateParams(self) => pc # "failed"

\* the options the interface admits
InvalidOption(s) ==
    \/ s.missings_num \notin {"False", "knn", "mean", "median", "mode", "delete"}
    \/ s.missings_categ \notin {"False", "mode", "delete"}
    \/ s.outliers \notin {"False", "winz", "delete"}
    \/ s.extract_datetime \notin {"False", "D", "M", "Y", "h", "m", "s"}
    \/ s.encode_categ.len >= 1 /\ s.encode_categ.method \notin {"False", "auto", "onehot", "label"}
    \/ s.outlier_param.type \in {"int", "float"} /\ ~RGt(s.outlier_param.val, Num(0))

\* C3: a configuration with an invalid option value is rejected by _validate_params,
\* so no stage is ever called on it.
C3_Rejected ==
    InvalidOption(self) => /\ calls = <<>>
                           /\ pc \in {"validate", "rejected"}

\* column c of the table before is encoded in the table after
Encoded(method, before, after, c) ==
    IF method = "onehot"
    THEN /\ PresentCells(before.col[c]) # {}
         /\ \A v \in PresentCells(before.col[c]) : Dummy(c, v) \in NameSet(after)
    ELSE IsNumber(after.dtype[c])

EncodeLeft == LastCall = "_encode_categ"

\* C4: in blanket mode (['onehot'] or ['label']) _encode_categ returns, and then every
\* non-numeric column that is not datetime-parseable is encoded with the method.
C4_Blanket ==
    (/\ self.encode_categ.len = 1
     /\ self.encode_categ.method \in {"onehot", "label"}
     /\ EncodeLeft)
    => /\ pc # "failed"
       /\ \A c \in NonNumericCols(aux.before) :
             ~Parseable(aux.before, c) => Encoded(self.encode_categ.method, aux.before, df, c)

\* the i-th (from 0) non-numeric column, in column order
NthNonNumeric(d, i) ==
    SelectIdx(d.names, [k \in 1..Len(d.names) |-> ~IsNumber(d.dtype[d.names[k]])], 1)[i + 1]

\* C5: in targeted mode a positional target i has the i-th non-numeric column encoded
\* with the method.
C5_Positional ==
    (/\ self.encode_categ.len = 2
     /\ self.encode_categ.method \in {"onehot", "label"}
     /\ EncodeLeft)
    => \A k \in 1..Len(self.encode_categ.targets) :
          LET t == self.encode_categ.targets[k]
          IN  t.idx >= 0 /\ t.idx < Cardinality(NonNumericCols(aux.before))
              /\ PresentCells(aux.before.col[NthNonNumeric(aux.before, t.idx)]) # {}
              => Encoded(self.encode_categ.method, aux.before, df,
                         NthNonNumeric(aux.before, t.idx))

RowOf(d, i) == [c \in NameSet(d) |-> d.col[c][i]]

RowsOf(d) == [i \in RowIdx(d) |-> RowOf(d, i)]

\* a missing-value handler has just run with strategy 'delete' on a table with
\* missing values
DeletedMissings ==
    /\ \/ LastCall = "_check_missings_num" /\ self.missings_num = "delete"
       \/ LastCall = "_check_missings_categ" /\ self.missings_categ = "delete"
    /\ CountMissings(aux.before) # 0

----------------------------------------------------------------------------
(* Properties of the outlier stage *)

\* the column the last step processed, and its bounds on the table the step started from
StepCol == aux.done[Len(aux.done)]

StepBounds == ComputeBounds(self, aux.before, StepCol)

Stepped(o) == pc = "outliers" /\ aux.done # <<>> /\ self.outliers = o

\* C6 as stated: under 'winz' (and a positive multiplier) a value below lower ends up
\* equal to lower, a value above upper equal to upper, a value inside the bounds is
\* unchanged.
C6_AsStated ==
    Stepped("winz") /\ RGt(self.outlier_param.val, Num(0)) =>
        LET bd == StepBounds
        IN  \A i \in RowIdx(df) :
                LET v == aux.before.col[StepCol][i]
                    w == df.col[StepCol][i]
                IN  /\ RLt(v, bd.lb) => w = bd.lb
                    /\ RGt(v, bd.ub) => w = bd.ub
                    /\ ~RLt(v, bd.lb) /\ ~RGt(v, bd.ub) => w = v

\* what a replaced value may be: the bound truncated toward zero when the column
\* held only whole numbers at the start (whole), the bound itself when a value
\* inside the bounds is not whole (frac), one of the two otherwise
Winsorized(w, bound, whole, frac) ==
    /\ w \in {bound, Trunc(bound)}
    /\ whole => w = Trunc(bound)
    /\ frac => w = bound

\* C6, amended: under 'winz' a value below lower ends up as lower, a value above upper
\* (and not below lower) as upper, in both cases truncated toward zero to a whole
\* number when the column is converted back to int; a value inside the bounds is
\* unchanged.
C6_Winz ==
    Stepped("winz") =>
        LET bd == StepBounds
            old == aux.before.col[StepCol]
            whole == AllIntegral(aux.before, StepCol)
            frac == \E j \in 1..Len(old) :
                        /\ ~IsNaN(old[j]) /\ ~IsIntegral(old[j])
                        /\ ~RLt(old[j], bd.lb) /\ ~RGt(old[j], bd.ub)
        IN  /\ NRows(df) = Len(old)
            /\ \A i \in RowIdx(df) :
                  LET v == old[i]
                      w == df.col[StepCol][i]
                  IN  /\ RLt(v, bd.lb) => Winsorized(w, bd.lb, whole, frac)
                      /\ RGt(v, bd.ub) /\ ~RLt(v, bd.lb) => Winsorized(w, bd.ub, whole, frac)
                      /\ ~RLt(v, bd.lb) /\ ~RGt(v, bd.ub) => w = v

\* a whole column got an upper bound that is not whole, and holds it truncated
C6_Witness ==
    /\ Stepped("winz")
    /\ RGt(self.outlier_param.val, Num(0))
    /\ LET bd == StepBounds
       IN  /\ ~IsIntegral(bd.ub)
           /\ \E i \in RowIdx(df) :
                 /\ RGt(aux.before.col[StepCol][i], bd.ub)
                 /\ df.col[StepCol][i] = Trunc(bd.ub)

Inside(v, b) == ~RLt(v, b.lb) /\ ~RGt(v, b.ub)

\* the rows of d whose value in column c is not outside b, in their order
Within(d, c, b) == SelectIdx(RowsOf(d), [i \in RowIdx(d) |-> Inside(d.col[c][i], b)], 1)

\* C7: under 'delete' a column's step computes the bounds on the table left by the
\* earlier columns, drops exactly the rows outside them, leaves every surviving value
\* within them (not outside; between lower and upper when the column has no missing
\* value), and leaves the row labels 0, 1, 2, ...; the stage returns the input
\* filtered by column a and then, with bounds computed anew, by column b.
C7_Delete ==
    /\ Stepped("delete") =>
          LET bd == StepBounds
          IN  /\ RowsOf(df) = Within(aux.before, StepCol, bd)
              /\ \A i \in RowIdx(df) : Inside(df.col[StepCol][i], bd)
              /\ \A i \in RowIdx(df) :
                    HasNaN(aux.before, StepCol)
                    \/ (/\ ~RLt(df.col[StepCol][i], bd.lb)
                        /\ ~RLt(bd.ub, df.col[StepCol][i])
                        /\ ~IsNaN(bd.lb) /\ ~IsNaN(bd.ub))
              /\ \A i \in RowIdx(df) : df.index[i] = i - 1
    /\ (pc = "datetime" /\ self.outliers = "delete" /\ Len(aux.done) = 2) =>
          LET a == Name("a")
              b == Name("b")
              ba == ComputeBounds(self, aux.input, a)
              left == KeepRows(aux.input, [i \in RowIdx(aux.input) |->
                                              Inside(aux.input.col[a][i], ba)])
          IN  RowsOf(df) = Within(left, b, ComputeBounds(self, left, b))

\* both columns lost rows, and the second column's bounds were not those of the input
C7_Witness ==
    /\ pc = "datetime" /\ self.outliers = "delete" /\ Len(aux.done) = 2
    /\ RGt(self.outlier_param.val, Num(0))
    /\ NRows(aux.before) < NRows(aux.input)
    /\ NRows(df) < NRows(aux.before)
    /\ NRows(df) > 0
    /\ ComputeBounds(self, aux.before, Name("b")) # ComputeBounds(self, aux.input, Name("b"))
----------------------------------------------------------------------------
(* Properties of the datetime stage *)

\* the component columns in the order Day, Month, Year, Hour, Minute, Sec, each with
\* the field of the text "Y-M-DTh:m:s" it is to hold
Parts == <<[name |-> "Day", field |-> 3], [name |-> "Month", field |-> 2],
           [name |-> "Year", field |-> 1], [name |-> "Hour", field |-> 4],
           [name |-> "Minute", field |-> 5], [name |-> "Sec", field |-> 6]>>

\* column c of the input holds ISO datetime texts only
IsoColumn(c) ==
    \A i \in RowIdx(aux.input) : IsoText(aux.input.col[c][i])

\* the table has the component column p, holding that field of column c's texts
Holds(p, c) ==
    /\ Name(p.name) \in NameSet(df)
    /\ \A i \in RowIdx(df) : df.col[Name(p.name)][i] = Num(aux.input.col[c][i][p.field])

Converted == pc = "encode" /\ self.extract_datetime = "s"

\* C9 as stated: with granularity 's', for every column of ISO datetime texts the
\* output has Day, Month, Year, Hour, Minute and Sec holding the parsed components
\* of that column, and the column is still there.
C9_AsStated ==
    Converted =>
        \A c \in NameSet(aux.input) :
            IsoColumn(c) => /\ c \in NameSet(df)
                            /\ \A k \in 1..6 : Holds(Parts[k], c)

\* the datetime-parseable columns of the input in the order they were visited
Visited ==
    SelectIdx(aux.done, [k \in 1..Len(aux.done) |-> Parseable(aux.input, aux.done[k])], 1)

\* C9, amended: with granularity 's' every input column is still there, and if the
\* datetime-parseable column visited last holds ISO datetime texts, then Day, Month
\* and Year hold its parsed components, and Hour, Minute and Sec hold them too unless
\* all three are 0 in every row, in which case these three columns are not there.
C9_Datetime ==
    Converted =>
        /\ NameSet(aux.input) \subseteq NameSet(df)
        /\ Visited # <<>> /\ IsoColumn(Visited[Len(Visited)]) =>
              LET c == Visited[Len(Visited)]
                  midnight == \A i \in RowIdx(aux.input) : \A f \in 4..6 :
                                  aux.input.col[c][i][f] = 0
              IN  /\ \A k \in 1..3 : Holds(Parts[k], c)
                  /\ \A k \in 4..6 : IF midnight THEN Name(Parts[k].name) \notin NameSet(df)
                                     ELSE Holds(Parts[k], c)

\* two columns of ISO texts that differ were visited, and the time columns are there
C9_Witness ==
    /\ Converted
    /\ Len(Visited) = 2
    /\ IsoColumn(Visited[1]) /\ IsoColumn(Visited[2])
    /\ aux.input.col[Visited[1]] # aux.input.col[Visited[2]]
    /\ Name("Hour") \in NameSet(df)

----------------------------------------------------------------------------
(* Properties of the type normaliser *)

\* C10: running _round_values on its own output changes nothing: the values and the
\* int/float representation of every column stay as they were after the first run.
C10_Idempotent ==
    (pc = "done" /\ Len(calls) = 2) => df = aux.before
----------------------------------------------------------------------------
(* Properties of the worked example *)

TheExample == <<Num(1), NaN, Num(3), Num(100)>>

\* _check_outliers has returned on the column [1, NaN, 3, 100], imputed with the mean
ExampleDone ==
    /\ LastCall = "_check_outliers"
    /\ self.missings_num = "mean"
    /\ aux.input.col[Name("x")] = TheExample

\* C11 as stated: on [1, NaN, 3, 100] with mean, winz and 1.5 the missing value becomes
\* the mean (1+3+100)/3, and 100 becomes upper = Q3 + 1.5*IQR of the imputed column.
C11_AsStated ==
    ExampleDone =>
        /\ aux.before.col[Name("x")][2] = Mean(<<Num(1), Num(3), Num(100)>>)
        /\ df.col[Name("x")][4] = ComputeBounds(self, aux.before, Name("x")).ub

\* C11, amended: on [1, NaN, 3, 100] with mean, winz and 1.5 the missing value becomes
\* the mean (1+3+100)/3 truncated to the whole number 34, the column staying int; the
\* bounds of the imputed column [1, 34, 3, 100] are (-69.5, 122.5), so 100 is inside
\* them and the outlier stage returns [1, 34, 3, 100] unchanged.
C11_Example ==
    ExampleDone =>
        LET imputed == <<Num(1), Trunc(Mean(<<Num(1), Num(3), Num(100)>>)), Num(3), Num(100)>>
            bd == ComputeBounds(self, aux.before, Name("x"))
        IN  /\ imputed[2] = Num(34)
            /\ aux.before.col[Name("x")] = imputed
            /\ aux.before.dtype[Name("x")] = "int"
            /\ bd = [lb |-> Rat(-139, 2), ub |-> Rat(245, 2)]
            /\ ~Outside(Num(100), bd)
            /\ df = aux.before

\* the example has gone through both stages and its missing value was filled
C11_Witness ==
    /\ ExampleDone
    /\ pc = "datetime"
    /\ ~HasNaN(df, Name("x"))
    /\ df.col[Name("x")][4] = Num(100)

----------------------------------------------------------------------------
(* Properties of the label encoding *)

Labelled == LastCall = "_label_encode"

\* the rows of the column that hold a category
Filled(cells) == {i \in 1..Len(cells) : cells[i] # <<>>}

\* the number of distinct categories seen before the first appearance of v
SeenBefore(cells, v) ==
    LET first == CHOOSE i \in Filled(cells) :
                    cells[i] = v /\ \A j \in Filled(cells) : cells[j] = v => i <= j
    IN  Cardinality({cells[j] : j \in {x \in Filled(cells) : x < first}})

\* the codes replace the values of the column, which keeps its name and its place,
\* and they map the k categories one to one onto 0..k-1
InPlaceBijection ==
    LET c == Name("c")
        old == aux.before.col[c]
        k == Cardinality(PresentCells(old))
    IN  /\ df.names = aux.before.names
        /\ NRows(df) = Len(old)
        /\ \A i \in Filled(old) : \E n \in 0..(k - 1) : df.col[c][i] = Num(n)
        /\ \A i, j \in Filled(old) : (df.col[c][i] = df.col[c][j]) <=> (old[i] = old[j])

----------------------------------------------------------------------------
(* Properties of the outlier bounds of a column with missing values *)

\* the table d without the rows whose value in column c is missing
Observed(d, c) == KeepRows(d, [i \in RowIdx(d) |-> ~IsNaN(d.col[c][i])])

\* C13: for a column that still holds missing values (and at least one value) the
\* bounds are those of the column with the missing entries removed, and a step on a
\* column with a value outside them winsorizes or deletes, so changes the table.
C13_BoundsSkipMissing ==
    (/\ pc = "outliers" /\ aux.done # <<>>
     /\ RGt(self.outlier_param.val, Num(0))
     /\ HasNaN(aux.before, StepCol)
     /\ Present(aux.before.col[StepCol]) # <<>>)
    => LET clean == ComputeBounds(self, Observed(aux.before, StepCol), StepCol)
       IN  /\ StepBounds = clean
           /\ (\E i \in RowIdx(aux.before) :
                  /\ ~IsNaN(aux.before.col[StepCol][i])
                  /\ Outside(aux.before.col[StepCol][i], clean))
              => df # aux.before

====
